---- MODULE Spec2Model ----
(***************************************************************************)
(* Model of the business-location-search pipeline:                        *)
(*   utils.py            classify_address, clean_data, process_data        *)
(*   database.py         DatabaseManager (the persisted store)             *)
(*   api_integrations.py collect_business_data and the provider clients    *)
(*   app.py              the on-demand "Collect Data" handler              *)
(*   scheduler.py        DataUpdateScheduler (jobs, update_data,           *)
(*                       full_refresh)                                     *)
(* Python strings are sequences of one-character strings, Python dicts    *)
(* are functions from the keys present to tagged values.                  *)
(***************************************************************************)
EXTENDS Integers, Sequences, FiniteSets, TLC

VARIABLES
    \* ---- classify_address harness
    address,        \* the address string handed to classify_address
    classification, \* the tuple classify_address returned for it ("none" before a call)
    calls,          \* how many times classify_address was called on it
    \* ---- clean_data harness
    raw_data,       \* the list of raw dicts handed to clean_data
    cleaned_data,   \* what clean_data returned for raw_data
    recleaned,      \* what clean_data returned for its own output
    cleanRaised,    \* TRUE when a clean_data call let an exception escape
    cleanPc,        \* "raw" | "cleaned" | "recleaned"
    \* ---- merge_data_sources harness
    primary_in,     \* the first list handed to merge_data_sources
    secondary_in,   \* the second list
    merged,         \* merge_data_sources(primary_in, secondary_in)
    swapped,        \* merge_data_sources(secondary_in, primary_in)
    mergePc,        \* "in" | "merged" | "swapped"
    \* ---- one call of a provider client (api_integrations.py)
    client          \* the call: its arguments, its position, its requests, its outcome

VARIABLES
    \* ---- DatabaseManager: the businesses table of businesses.db
    store,          \* the rows, in id order
    next_id,        \* the next AUTOINCREMENT id
    \* ---- the process environment
    env_google,     \* whether GOOGLE_MAPS_API_KEY is set
    \* ---- DataUpdateScheduler.scheduler (the BackgroundScheduler)
    running,        \* scheduler.running
    jobs,           \* ids of the registered jobs
    next_run_time,  \* per registered job id, the hour of the week of its next fire
    instances,      \* per job id, the instances of it now running in the executor
    now,            \* the clock: the hour of the week
    report,         \* what the last introspection call returned
    \* ---- one awaited run of update_data() or full_refresh() (a cycle)
    cycle,
    \* ---- the "Collect Data" handler of app.py
    od

dbVars == <<store, next_id>>
apsVars == <<running, jobs, next_run_time, instances, now, report>>
sysVars == <<dbVars, env_google, apsVars, cycle, od>>

classifyVars == <<address, classification, calls>>
cleanVars == <<raw_data, cleaned_data, recleaned, cleanRaised, cleanPc>>
mergeVars == <<primary_in, secondary_in, merged, swapped, mergePc>>
pureVars == <<classifyVars, cleanVars, mergeVars, client>>

vars == <<pureVars, sysVars>>

----------------------------------------------------------------------------
(* Bounds of the model                                                     *)

MaxAddrLen == 4     \* longest address string enumerated for classify_address
MaxStrLen == 2      \* longest rating / review-count string enumerated
MaxBatch == 2       \* longest raw batch enumerated for clean_data
MaxCalls == 2       \* calls of classify_address on one address
MaxMerge == 1       \* longest list handed to merge_data_sources on each side
MaxStore == 1       \* a batch is saved only while this run has written fewer rows than this

----------------------------------------------------------------------------
(* Strings                                                                 *)

\* Python values: t is the type, n the number (an int, or the mantissa of a float),
\* e the number of decimal places of a float (value = n / 10^e), s the characters
Str(s) == [t |-> "str", n |-> 0, e |-> 0, s |-> s]
\* a string whose characters are never inspected (a name, a label)
Word(w) == Str(<<w>>)
IntV(n) == [t |-> "int", n |-> n, e |-> 0, s |-> <<>>]
NoneV == [t |-> "none", n |-> 0, e |-> 0, s |-> <<>>]
\* no value at all: the key is not in the dict, the variable is not bound
Absent == [t |-> "absent", n |-> 0, e |-> 0, s |-> <<>>]

RECURSIVE Normal(_, _)
Normal(n, e) ==
    IF e > 0 /\ n % 10 = 0 THEN Normal(n \div 10, e - 1)
    ELSE [t |-> "float", n |-> n, e |-> e, s |-> <<>>]

\* the float n / 10^e
FloatV(n, e) == Normal(n, e)

\* str.lower() on the ASCII letters
LowerOf ==
    [c \in {"A","B","C","D","E","F","G","H","I","J","K","L","M",
            "N","O","P","Q","R","S","T","U","V","W","X","Y","Z"} |->
        CASE c = "A" -> "a" [] c = "B" -> "b" [] c = "C" -> "c" [] c = "D" -> "d"
          [] c = "E" -> "e" [] c = "F" -> "f" [] c = "G" -> "g" [] c = "H" -> "h"
          [] c = "I" -> "i" [] c = "J" -> "j" [] c = "K" -> "k" [] c = "L" -> "l"
          [] c = "M" -> "m" [] c = "N" -> "n" [] c = "O" -> "o" [] c = "P" -> "p"
          [] c = "Q" -> "q" [] c = "R" -> "r" [] c = "S" -> "s" [] c = "T" -> "t"
          [] c = "U" -> "u" [] c = "V" -> "v" [] c = "W" -> "w" [] c = "X" -> "x"
          [] c = "Y" -> "y" [] c = "Z" -> "z"]

LowerNoop(s) == s

lower(s) == [i \in 1..Len(s) |-> IF s[i] \in DOMAIN LowerOf THEN LowerOf[s[i]] ELSE s[i]]

\* Python's `needle in hay` on strings: scan the start positions left to right
RECURSIVE FindFrom(_, _, _)
FindFrom(needle, hay, i) ==
    IF i + Len(needle) - 1 > Len(hay) THEN FALSE
    ELSE IF \A k \in 1..Len(needle) : hay[i + k - 1] = needle[k] THEN TRUE
    ELSE FindFrom(needle, hay, i + 1)

StrIn(needle, hay) == FindFrom(needle, hay, 1)

----------------------------------------------------------------------------
(* utils.classify_address                                                  *)

commercial_indicators ==
    << <<"s","u","i","t","e">>, <<"s","t","e">>, <<"u","n","i","t">>,
       <<"f","l","o","o","r">>, <<"f","l">>, <<"#">>,
       <<"p","l","a","z","a">>, <<"m","a","l","l">>,
       <<"b","u","i","l","d","i","n","g">>, <<"b","l","d","g">>,
       <<"o","f","f","i","c","e">>,
       <<"c","o","m","m","e","r","c","i","a","l">>,
       <<"i","n","d","u","s","t","r","i","a","l">>,
       <<"s","h","o","p","p","i","n","g"," ","c","e","n","t","e","r">>,
       <<"r","e","t","a","i","l">>, <<"s","t","o","r","e">>, <<"s","h","o","p">> >>

Commercial == <<"Commercial", "#FFD700">>
Residential == <<"Residential", "#90EE90">>

\* any(indicator in address_lower for indicator in commercial_indicators)
RECURSIVE AnyIndicator(_, _)
AnyIndicator(address_lower, i) ==
    IF i > Len(commercial_indicators) THEN FALSE
    ELSE IF StrIn(commercial_indicators[i], address_lower) THEN TRUE
    ELSE AnyIndicator(address_lower, i + 1)

\* a classify_address that forgets to lower-case the address
classify_address_case_sensitive(a) ==
    IF AnyIndicator(LowerNoop(a), 1) THEN Commercial ELSE Residential

\* addr is a Python str here (a sequence of characters)
classify_address(a) ==
    LET address_lower == lower(a)
        is_commercial == AnyIndicator(address_lower, 1)
    IN  IF is_commercial THEN Commercial ELSE Residential

----------------------------------------------------------------------------
(* Python's float() and int() builtins, and dict.get                       *)

Raise == [ok |-> FALSE, v |-> NoneV]
Return(v) == [ok |-> TRUE, v |-> v]

DigitOf ==
    [c \in {"0","1","2","3","4","5","6","7","8","9"} |->
        CASE c = "0" -> 0 [] c = "1" -> 1 [] c = "2" -> 2 [] c = "3" -> 3
          [] c = "4" -> 4 [] c = "5" -> 5 [] c = "6" -> 6 [] c = "7" -> 7
          [] c = "8" -> 8 [] c = "9" -> 9]

IsDigits(s) == \A i \in 1..Len(s) : s[i] \in DOMAIN DigitOf

RECURSIVE DigitsValue(_)
DigitsValue(s) ==
    IF s = <<>> THEN 0
    ELSE 10 * DigitsValue(SubSeq(s, 1, Len(s) - 1)) + DigitOf[s[Len(s)]]

RECURSIVE Pow10(_)
Pow10(e) == IF e = 0 THEN 1 ELSE 10 * Pow10(e - 1)

HasSign(s) == Len(s) > 0 /\ s[1] \in {"-", "+"}
Unsigned(s) == IF HasSign(s) THEN Tail(s) ELSE s
SignOf(s) == IF HasSign(s) /\ s[1] = "-" THEN -1 ELSE 1

\* int("...") : an optional sign and at least one digit, nothing else
ParseInt(s) ==
    LET body == Unsigned(s)
    IN  IF Len(body) > 0 /\ IsDigits(body)
        THEN Return(IntV(SignOf(s) * DigitsValue(body)))
        ELSE Raise

\* float("...") : an optional sign, digits with at most one point, at least one digit
ParseFloat(s) ==
    LET body == Unsigned(s)
        dots == {i \in 1..Len(body) : body[i] = "."}
    IN  IF dots = {}
        THEN IF Len(body) > 0 /\ IsDigits(body)
             THEN Return(FloatV(SignOf(s) * DigitsValue(body), 0))
             ELSE Raise
        ELSE LET d == CHOOSE i \in dots : \A j \in dots : i <= j
                 whole == SubSeq(body, 1, d - 1)
                 frac == SubSeq(body, d + 1, Len(body))
             IN  IF IsDigits(whole) /\ IsDigits(frac) /\ Len(whole) + Len(frac) > 0
                 THEN Return(FloatV(SignOf(s) * DigitsValue(whole \o frac), Len(frac)))
                 ELSE Raise

IsValue(v) == "t" \in DOMAIN v

\* float(x): TypeError for None and containers, ValueError for a bad string
pyfloat(v) ==
    IF ~IsValue(v) THEN Raise
    ELSE CASE v.t = "float" -> Return(v)
           [] v.t = "int" -> Return(FloatV(v.n, 0))
           [] v.t = "str" -> ParseFloat(v.s)
           [] OTHER -> Raise

\* int(x): truncates a float toward zero, parses a string as an integer literal
pyint(v) ==
    IF ~IsValue(v) THEN Raise
    ELSE CASE v.t = "int" -> Return(v)
           [] v.t = "float" ->
                Return(IntV(IF v.n >= 0 THEN v.n \div Pow10(v.e)
                            ELSE -((-v.n) \div Pow10(v.e))))
           [] v.t = "str" -> ParseInt(v.s)
           [] OTHER -> Raise

IsDict(d) == ~IsValue(d)

\* d.get(key, default)
Get(d, key, default) == IF key \in DOMAIN d THEN d[key] ELSE default

----------------------------------------------------------------------------
(* utils.clean_data                                                        *)

NoLocation == [lat |-> IntV(0), lng |-> IntV(0)]

CleanKeys ==
    {"Business Name", "Address", "Address Type", "Address Color", "Phone",
     "Rating", "Reviews", "Website", "Business Type", "Location", "Source"}

\* business.get('Rating') without the default
default_none == NoneV

\* business.get('Rating', 0) and business.get('Review Count', 0)
default_rating == IntV(0)
default_review_count == IntV(0)

\* the body of the try block for one raw record: the cleaned dict, or the raise
cleaned_business(business) ==
    IF ~IsDict(business) THEN Raise                 \* business.get on a non-dict
    ELSE
    LET addr == Get(business, "Address", Str(<<>>))
    IN  IF ~IsValue(addr) \/ addr.t # "str" THEN Raise   \* address.lower()
        ELSE
        LET cls == classify_address(addr.s)
            rating == pyfloat(Get(business, "Rating", default_rating))
            reviews == pyint(Get(business, "Review Count", default_review_count))
        IN  IF ~rating.ok \/ ~reviews.ok THEN Raise
            ELSE Return(
                [k \in CleanKeys |->
                    CASE k = "Business Name" -> Get(business, "Business Name", Str(<<>>))
                      [] k = "Address" -> addr
                      [] k = "Address Type" -> Word(cls[1])
                      [] k = "Address Color" -> Word(cls[2])
                      [] k = "Phone" -> Get(business, "Phone", Str(<<>>))
                      [] k = "Rating" -> rating.v
                      [] k = "Reviews" -> reviews.v
                      [] k = "Website" -> Get(business, "Website", Str(<<>>))
                      [] k = "Business Type" -> Get(business, "Business Type", Str(<<>>))
                      [] k = "Location" -> Get(business, "Location", NoLocation)
                      [] k = "Source" -> Get(business, "Source", Str(<<>>))])

RECURSIVE CleanLoop(_, _)

\* an except clause that lets the error end the whole call
except_reraise(rest, out) == Raise

\* except Exception: logger.error(...); continue
except_continue(rest, out) == CleanLoop(rest, out)

\* for business in raw_data: try ... append / except ...
CleanLoop(raw, out) ==
    IF raw = <<>> THEN Return(out)
    ELSE LET r == cleaned_business(Head(raw))
         IN  IF r.ok THEN CleanLoop(Tail(raw), Append(out, r.v))
             ELSE except_continue(Tail(raw), out)

\* the call: its returned list, or the exception that escaped it
clean_data(raw) == CleanLoop(raw, <<>>)

----------------------------------------------------------------------------
(* utils.process_data, as the "Collect Data" handler uses it               *)

\* df.fillna({'Rating': 0, 'Reviews': 0, 'Website': '', 'Phone': ''}) on one row
FillNa(row) ==
    [k \in DOMAIN row |->
        IF IsValue(row[k]) /\ row[k].t = "none"
        THEN CASE k \in {"Rating", "Reviews"} -> FloatV(0, 0)
               [] k \in {"Website", "Phone"} -> Str(<<>>)
               [] OTHER -> row[k]
        ELSE row[k]]

\* pd.DataFrame(cleaned_data), to_numeric, fillna: the rows of the frame
process_data(cleaned) == [i \in 1..Len(cleaned) |-> FillNa(cleaned[i])]

\* processed_data['Primary Category'] = ...; processed_data['Search Category'] = ...
WithCategories(rows, primary_category) ==
    [i \in 1..Len(rows) |->
        [k \in DOMAIN rows[i] \cup {"Primary Category", "Search Category"} |->
            CASE k = "Primary Category" -> primary_category
              [] k = "Search Category" -> rows[i]["Business Type"]
              [] OTHER -> rows[i][k]]]

----------------------------------------------------------------------------
(* database.DatabaseManager                                                *)

\* the methods the class defines
DatabaseManagerMethods == {"__init__", "create_tables", "save_businesses", "get_businesses"}

EmptyDict == [k \in {} |-> NoneV]

\* a value sqlite3 can bind to a statement parameter
Bindable(v) == IsValue(v) /\ v.t \in {"str", "int", "float", "none"}

Columns ==
    {"business_name", "address", "address_type", "phone", "rating", "reviews",
     "website", "business_type", "latitude", "longitude", "source"}

\* the parameter tuple of the INSERT for one business
InsertParams(business, location) ==
    [c \in Columns |->
        CASE c = "business_name" -> Get(business, "Business Name", Str(<<>>))
          [] c = "address" -> Get(business, "Address", Str(<<>>))
          [] c = "address_type" -> Get(business, "Address Type", Word("Unknown"))
          [] c = "phone" -> Get(business, "Phone", Str(<<>>))
          [] c = "rating" -> Get(business, "Rating", FloatV(0, 0))
          [] c = "reviews" -> Get(business, "Reviews", IntV(0))
          [] c = "website" -> Get(business, "Website", Str(<<>>))
          [] c = "business_type" -> Get(business, "Business Type", Str(<<>>))
          [] c = "latitude" -> Get(location, "lat", IntV(0))
          [] c = "longitude" -> Get(location, "lng", IntV(0))
          [] c = "source" -> Get(business, "Source", Str(<<>>))]

\* the row the INSERT adds: its id and its columns
Row(id, params) == [c \in Columns \cup {"id"} |-> IF c = "id" THEN IntV(id) ELSE params[c]]

\* the table an earlier run of the program left in the database file, which
\* CREATE TABLE IF NOT EXISTS keeps: one business no provider lists any more
OldBusiness ==
    [k \in {"Business Name", "Address", "Address Type", "Source"} |->
        CASE k = "Business Name" -> Word("Old")
          [] k = "Address" -> Str(<<"1", " ", "O", "a", "k">>)
          [] k = "Address Type" -> Word("Residential")
          [] k = "Source" -> Word("HERE")]

ExistingRows == <<Row(1, InsertParams(OldBusiness, EmptyDict))>>

\* how many rows of the table this run has written
Fresh(rows) ==
    Cardinality({i \in 1..Len(rows) :
                   \A k \in 1..Len(ExistingRows) : rows[i] # ExistingRows[k]})

\* the loop of save_businesses over the batch, then conn.commit(); an exception
\* outside the inner try leaves the call with nothing committed
RECURSIVE SaveLoop(_, _, _)
SaveLoop(businesses, rows, id) ==
    IF businesses = <<>> THEN Return([store |-> rows, next_id |-> id])
    ELSE LET business == Head(businesses)
         IN  IF ~IsDict(business) THEN Raise
             ELSE LET location == Get(business, "Location", EmptyDict)
                  IN  IF ~IsDict(location) THEN Raise
                      ELSE LET params == InsertParams(business, location)
                           IN  IF \A c \in Columns : Bindable(params[c])
                               THEN SaveLoop(Tail(businesses),
                                             Append(rows, Row(id, params)), id + 1)
                               ELSE SaveLoop(Tail(businesses), rows, id)

\* a save that writes the batch over the table
save_businesses_overwrite(businesses) ==
    LET r == SaveLoop(businesses, <<>>, next_id)
    IN  IF r.ok
        THEN Return([store |-> r.v.store, next_id |-> r.v.next_id, ret |-> NoneV])
        ELSE Raise

\* save_businesses(businesses): the table after the call and ret, the value of
\* the call; the method ends without a return statement
save_businesses(businesses) ==
    LET r == SaveLoop(businesses, store, next_id)
    IN  IF r.ok
        THEN Return([store |-> r.v.store, next_id |-> r.v.next_id, ret |-> NoneV])
        ELSE Raise

----------------------------------------------------------------------------
(* The businesses the providers know about                                 *)

business_types == <<Word("Marketing Firms"), Word("Lawyers"), Word("Paralegal")>>

\* one business per category: the first at a commercial address
WorldName(i) == Word(ToString(i))
WorldAddress(i) ==
    IF i = 1 THEN Str(<<"9", " ", "S", "t", "e">>) ELSE Str(<<"1", " ", "O", "a", "k">>)

Location(i) == [lat |-> IntV(42), lng |-> IntV(-83)]

ListV == [t |-> "list", n |-> 0, e |-> 0, s |-> <<>>]

\* the dict HerePlacesAPI.search_businesses builds for an item
HereRecord(i, query) ==
    [k \in {"Business Name", "Address", "Phone", "Website", "Business Type", "Location",
            "Rating", "Reviews", "Categories", "Distance", "Source"} |->
        CASE k = "Business Name" -> WorldName(i)
          [] k = "Address" -> WorldAddress(i)
          [] k = "Phone" -> Str(<<>>)
          [] k = "Website" -> Str(<<>>)
          [] k = "Business Type" -> query
          [] k = "Location" -> Location(i)
          [] k = "Rating" -> FloatV(0, 0)
          [] k = "Reviews" -> IntV(0)
          [] k = "Categories" -> ListV
          [] k = "Distance" -> IntV(0)
          [] k = "Source" -> Word("HERE")]

\* the dict YelpAPI.search_businesses builds for a business
YelpRecord(i, query) ==
    [k \in {"Business Name", "Address", "Phone", "Rating", "Review Count", "Website",
            "Business Type", "Location", "Price", "Categories", "Source"} |->
        CASE k = "Business Name" -> WorldName(i)
          [] k = "Address" -> WorldAddress(i)
          [] k = "Phone" -> Word("555")
          [] k = "Rating" -> FloatV(45, 1)
          [] k = "Review Count" -> IntV(10)
          [] k = "Website" -> Str(<<>>)
          [] k = "Business Type" -> query
          [] k = "Location" -> Location(i)
          [] k = "Price" -> Str(<<>>)
          [] k = "Categories" -> ListV
          [] k = "Source" -> Word("Yelp")]

\* what a provider's HTTP exchange can come to
Responses == {"error", "geocode_miss", "no_items", "items"}

\* HerePlacesAPI.search_businesses / YelpAPI.search_businesses: every exception is
\* caught in the method and [] returned
search_businesses(api_type, i, query, response) ==
    IF response = "items"
    THEN IF api_type = "here" THEN <<HereRecord(i, query)>> ELSE <<YelpRecord(i, query)>>
    ELSE <<>>

\* collect_business_data(api_type, business_type, location), the key being set
collect_business_data(api_type, i, query, response, has_key) ==
    IF api_type \in {"here", "yelp"} /\ has_key
    THEN search_businesses(api_type, i, query, response)
    ELSE <<>>

----------------------------------------------------------------------------
(* api_integrations.py: one call of a provider client, request by request  *)

ApiTypes == {"google", "here", "yelp"}

\* the dict GooglePlacesAPI.search_businesses builds for a place
GoogleRecord(i, query) ==
    [k \in {"Business Name", "Address", "Phone", "Rating", "Review Count", "Website",
            "Business Type", "Location"} |->
        CASE k = "Business Name" -> WorldName(i)
          [] k = "Address" -> WorldAddress(i)
          [] k = "Phone" -> Word("555")
          [] k = "Rating" -> FloatV(3, 0)
          [] k = "Review Count" -> IntV(7)
          [] k = "Website" -> Str(<<>>)
          [] k = "Business Type" -> query
          [] k = "Location" -> Location(i)]

\* requests.get(url, params=params), requests.post(url, headers=headers, json=data):
\* no timeout argument is passed, and requests then waits for the reply without limit
\* radius: the 'radius' parameter of the business search, in meters
NoRequest == [kind |-> "none", timeout |-> NoneV, radius |-> NoneV]
Request(kind, radius) ==
    [kind |-> kind, timeout |-> NoneV,
     radius |-> IF kind = "search" THEN radius ELSE NoneV]

\* def search_businesses(self, query, location, radius: int = 5000)
default_radius == 5000

\* radius = st.slider("Search Radius (miles)", min_value=1, max_value=25, value=5)
slider_min == 1
slider_max == 25
slider_value == 5
Radii == {slider_min, slider_value, slider_max}

\* radius_meters = radius * 1609
radius_meters(radius) == radius * 1609

\* api_type, has_key, i: the provider, whether its key is in the environment, the
\* business type searched; entry: "collect" for collect_business_data, "direct" for
\* Api().search_businesses; pending: the request waiting for its reply; requests,
\* replies: the requests issued and the replies received so far; result: the list
\* returned; raised: the exception that left the call; radius_miles: where the
\* slider of the page stands; radius_meters: the local of the page computed from it;
\* radius: the parameter of search_businesses
IdleClient ==
    [api_type |-> "here", has_key |-> FALSE, entry |-> "none", i |-> 0, pc |-> "idle",
     pending |-> NoRequest, requests |-> <<>>, replies |-> <<>>, result |-> <<>>,
     raised |-> "none", radius_miles |-> slider_value,
     radius_meters |-> radius_meters(slider_value), radius |-> NoneV]

\* what can come back for the geocoding request: requests raises (connection error),
\* the body is not JSON, a JSON error body (HTTP error status), no result, a result
\* without the coordinates, a result
GeoReplies == {"exception", "not_json", "error_body", "no_results", "malformed", "ok"}

\* what can come back for the business search: requests raises, the body is not
\* JSON, an HTTP error status with a JSON error body, items of an unexpected shape,
\* no item, items
SearchReplies == {"exception", "not_json", "http_error", "malformed", "no_items", "items"}

\* the try block after the geocoding reply: "raise", "empty" (return []) or "continue"
GeocodeOutcome(reply) ==
    CASE reply \in {"exception", "not_json", "malformed"} -> "raise"
      [] reply \in {"error_body", "no_results"} -> "empty"
      [] reply = "ok" -> "continue"

\* the try block after the search reply; only Yelp calls response.raise_for_status()
SearchOutcome(api_type, reply) ==
    CASE reply \in {"exception", "not_json", "malformed"} -> "raise"
      [] reply = "http_error" -> IF api_type = "yelp" THEN "raise" ELSE "empty"
      [] reply = "no_items" -> "empty"
      [] reply = "items" -> "records"

BusinessData(api_type, i, query) ==
    CASE api_type = "google" -> GoogleRecord(i, query)
      [] api_type = "here" -> HereRecord(i, query)
      [] api_type = "yelp" -> YelpRecord(i, query)

\* an except clause that logs and raises again
except_reraise_search(c) ==
    [c EXCEPT !.pc = "raised", !.pending = NoRequest, !.raised = "Exception"]

\* except Exception as e: logger.error(...); return []
except_return_empty(c) ==
    [c EXCEPT !.pc = "returned", !.pending = NoRequest, !.result = <<>>]

\* the page calls collect_business_data(api_type, category, location), which calls
\* api.search_businesses(business_type, location): no radius is handed on, and the
\* parameter takes its default
CollectCall ==
    /\ client.pc = "idle" /\ client.entry = "collect"
    /\ client' = IF client.api_type \in {"here", "yelp"} /\ client.has_key
                 THEN [client EXCEPT !.pc = "construct", !.radius = IntV(default_radius)]
                 ELSE [client EXCEPT !.pc = "returned", !.result = <<>>]
    /\ UNCHANGED <<classifyVars, cleanVars, mergeVars, sysVars>>

\* a caller builds the client itself and calls search_businesses on it
DirectCall ==
    /\ client.pc = "idle" /\ client.entry = "direct"
    /\ client' = [client EXCEPT !.pc = "construct", !.radius = IntV(default_radius)]
    /\ UNCHANGED <<classifyVars, cleanVars, mergeVars, sysVars>>

\* __init__: self.api_key = os.getenv(...); raise ValueError if it is not set
Construct ==
    /\ client.pc = "construct"
    /\ client' = IF client.has_key
                 THEN [client EXCEPT !.pc = "search"]
                 ELSE [client EXCEPT !.pc = "raised", !.raised = "ValueError"]
    /\ UNCHANGED <<classifyVars, cleanVars, mergeVars, sysVars>>

\* search_businesses starts: the geocoding request (Google, HERE) or the search (Yelp)
SearchCall ==
    /\ client.pc = "search"
    /\ LET kind == IF client.api_type = "yelp" THEN "search" ELSE "geocode"
       IN  client' = [client EXCEPT !.pc = "wait", !.pending = Request(kind, client.radius),
                                    !.requests = Append(@, kind)]
    /\ UNCHANGED <<classifyVars, cleanVars, mergeVars, sysVars>>

\* the geocoding reply arrives
GeocodeReply ==
    /\ client.pc = "wait" /\ client.pending.kind = "geocode"
    /\ \E reply \in GeoReplies :
        LET c == [client EXCEPT !.replies = Append(@, reply)]
            outcome == GeocodeOutcome(reply)
        IN  client' =
                CASE outcome = "raise" -> except_return_empty(c)
                  [] outcome = "empty" ->
                        [c EXCEPT !.pc = "returned", !.pending = NoRequest, !.result = <<>>]
                  [] outcome = "continue" ->
                        [c EXCEPT !.pending = Request("search", client.radius),
                                  !.requests = Append(@, "search")]
    /\ UNCHANGED <<classifyVars, cleanVars, mergeVars, sysVars>>

\* the reply to the business search arrives
SearchReply ==
    /\ client.pc = "wait" /\ client.pending.kind = "search"
    /\ \E reply \in SearchReplies :
        LET c == [client EXCEPT !.replies = Append(@, reply)]
            outcome == SearchOutcome(client.api_type, reply)
        IN  client' =
                CASE outcome = "raise" -> except_return_empty(c)
                  [] outcome = "empty" ->
                        [c EXCEPT !.pc = "returned", !.pending = NoRequest, !.result = <<>>]
                  [] outcome = "records" ->
                        [c EXCEPT !.pc = "returned", !.pending = NoRequest,
                                  !.result = <<BusinessData(client.api_type, client.i,
                                                            business_types[client.i])>>]
    /\ UNCHANGED <<classifyVars, cleanVars, mergeVars, sysVars>>

----------------------------------------------------------------------------
(* utils.DataCollector and utils.merge_data_sources, which scheduler.py    *)
(* imports: their behaviour is the one the specification gives the         *)
(* ProviderClient and the Merger                                           *)

\* a Business-shaped raw mapping, as a provider client returns it
CollectorRecord(i, query, source) ==
    [k \in {"Business Name", "Address", "Phone", "Rating", "Review Count", "Website",
            "Business Type", "Location", "Source"} |->
        CASE k = "Business Name" -> WorldName(i)
          [] k = "Address" -> WorldAddress(i)
          [] k = "Phone" -> IF source = "Google" THEN Word("555") ELSE Str(<<>>)
          [] k = "Rating" -> IF source = "Google" THEN FloatV(3, 0) ELSE FloatV(4, 0)
          [] k = "Review Count" -> IF source = "Google" THEN IntV(7) ELSE IntV(12)
          [] k = "Website" -> Str(<<>>)
          [] k = "Business Type" -> query
          [] k = "Location" -> IF source = "Google" THEN Location(i) ELSE NoLocation
          [] k = "Source" -> Word(source)]

\* what a call of scrape_yelp / get_google_places_data can come to
Outcomes == {"raise", "empty", "found"}

\* Google lists the first business only, Yelp lists them all
Lists(source, i) == source = "Yelp" \/ i = 1

\* the list a collector call returns when it returns
Collected(i, query, source, outcome) ==
    IF outcome = "found" /\ Lists(source, i)
    THEN <<CollectorRecord(i, query, source)>>
    ELSE <<>>

IsSpace(c) == c = " "

\* lower-cased, stripped, runs of blanks collapsed to one
RECURSIVE Squeeze(_, _)
Squeeze(x, pending) ==
    IF x = <<>> THEN <<>>
    ELSE IF IsSpace(Head(x)) THEN Squeeze(Tail(x), TRUE)
    ELSE (IF pending THEN <<" ">> ELSE <<>>) \o <<Head(x)>> \o Squeeze(Tail(x), FALSE)

RECURSIVE LStrip(_)
LStrip(x) == IF x # <<>> /\ IsSpace(Head(x)) THEN LStrip(Tail(x)) ELSE x

NormText(v) == IF IsValue(v) /\ v.t = "str" THEN Squeeze(LStrip(lower(v.s)), FALSE) ELSE <<>>

\* a key that compares the name and the address as they are spelled
DedupKey_exact(r) ==
    <<Get(r, "Business Name", Str(<<>>)).s, Get(r, "Address", Str(<<>>)).s>>

DedupKey(r) ==
    <<NormText(Get(r, "Business Name", Str(<<>>))), NormText(Get(r, "Address", Str(<<>>)))>>

\* the field is empty or zero
IsEmptyValue(v) ==
    IF IsValue(v)
    THEN \/ v.t = "none"
         \/ v.t = "str" /\ v.s = <<>>
         \/ v.t \in {"int", "float"} /\ v.n = 0
         \/ v.t = "list" /\ v.s = <<>>
    ELSE \A k \in DOMAIN v : IsValue(v[k]) /\ v[k].n = 0

\* a merge that keeps the primary record whole
MergeFields_whole_record(p, q) == p

\* a merge that prefers the secondary's value
MergeFields_secondary_first(p, q) ==
    [k \in DOMAIN p \cup DOMAIN q |->
        IF k \in DOMAIN q /\ (~IsEmptyValue(q[k]) \/ k \notin DOMAIN p) THEN q[k] ELSE p[k]]

\* field by field: the primary's value unless it is empty or zero
MergeFields(p, q) ==
    [k \in DOMAIN p \cup DOMAIN q |->
        IF k \in DOMAIN p /\ (~IsEmptyValue(p[k]) \/ k \notin DOMAIN q) THEN p[k] ELSE q[k]]

RECURSIVE MergeInto(_, _)
MergeInto(out, rest) ==
    IF rest = <<>> THEN out
    ELSE LET r == Head(rest)
             same == {j \in 1..Len(out) : DedupKey(out[j]) = DedupKey(r)}
         IN  IF same = {} THEN MergeInto(Append(out, r), Tail(rest))
             ELSE LET j == CHOOSE x \in same : TRUE
                  IN  MergeInto([out EXCEPT ![j] = MergeFields(out[j], r)], Tail(rest))

merge_data_sources(primary, secondary) == MergeInto(<<>>, primary \o secondary)

----------------------------------------------------------------------------
(* scheduler.DataUpdateScheduler: the BackgroundScheduler and its jobs     *)

JobIds == {"daily_update", "weekly_refresh"}

\* add_job is called without max_instances: one running instance per job id
max_instances == 1
\* BackgroundScheduler() is built without executors: a pool of ten threads
max_workers == 10

\* the clock counts whole hours of the week, Monday 00:00 being 0 (day_of_week 0)
HoursPerDay == 24
DaysPerWeek == 7
HoursPerWeek == HoursPerDay * DaysPerWeek
sun == 6

\* CronTrigger(hour=2): every day at 02:00:00
daily_hour == 2
\* CronTrigger(day_of_week='sun', hour=3): Sundays at 03:00:00
weekly_hour == 3

Due(j, t) ==
    IF j = "daily_update" THEN t % HoursPerDay = daily_hour
    ELSE t \div HoursPerDay = sun /\ t % HoursPerDay = weekly_hour

\* the trigger's next fire time after hour t
NextFire(j, t) ==
    LET k == CHOOSE k \in 1..HoursPerWeek :
                /\ Due(j, (t + k) % HoursPerWeek)
                /\ \A m \in 1..(k - 1) : ~Due(j, (t + m) % HoursPerWeek)
    IN  (t + k) % HoursPerWeek

InFlight == {j \in JobIds : instances[j] > 0}

\* the jobs whose fire time has come and which the scheduler has yet to process
Pending == {j \in jobs : running /\ next_run_time[j] = now}

\* start(): both jobs added (replace_existing), then scheduler.start()
Start ==
    /\ ~running
    /\ jobs' = JobIds
    /\ next_run_time' = [j \in JobIds |-> NextFire(j, now)]
    /\ running' = TRUE
    /\ instances' = [j \in JobIds |-> 0]
    /\ UNCHANGED <<pureVars, dbVars, env_google, report, now, cycle, od>>

\* stop(): scheduler.shutdown() waits for the running jobs, the job store drops its jobs
Stop ==
    /\ running
    /\ InFlight = {}
    /\ running' = FALSE
    /\ jobs' = {}
    /\ next_run_time' = [j \in {} |-> 0]
    /\ UNCHANGED <<pureVars, dbVars, env_google, report, now, instances, cycle, od>>

\* an hour passes, once the jobs that were due have been processed
Tick ==
    /\ Pending = {}
    /\ now' = (now + 1) % HoursPerWeek
    /\ UNCHANGED <<pureVars, dbVars, env_google, report, running, jobs,
                   next_run_time, instances, cycle, od>>

\* the trigger of job j fires: the executor runs one more instance of it, in a thread
\* of its pool, unless max_instances of them are running (then this run is skipped).
\* The instance calls the job function, an `async def`: the call makes a coroutine
\* object and returns it to the executor.
Fire(j) ==
    /\ j \in Pending
    /\ next_run_time' = [next_run_time EXCEPT ![j] = NextFire(j, now)]
    /\ instances' = IF instances[j] < max_instances /\ Cardinality(InFlight) < max_workers
                    THEN [instances EXCEPT ![j] = @ + 1]
                    ELSE instances
    /\ UNCHANGED <<pureVars, dbVars, env_google, report, now, running, jobs, cycle, od>>

\* the instance of job j ends
JobReturn(j) ==
    /\ instances[j] > 0
    /\ instances' = [instances EXCEPT ![j] = @ - 1]
    /\ UNCHANGED <<pureVars, dbVars, env_google, report, now, running, jobs,
                   next_run_time, cycle, od>>

\* job.name, as add_job sets it
JobName(j) == IF j = "daily_update" THEN "Daily data update" ELSE "Weekly full refresh"

Digit(n) == CHOOSE c \in DOMAIN DigitOf : DigitOf[c] = n

\* next_run_time.strftime("%Y-%m-%d %H:%M:%S"); on the weekly clock the day of the
\* week stands for the date
strftime(t) ==
    Str(<<Digit(t \div HoursPerDay), " ",
          Digit((t % HoursPerDay) \div 10), Digit((t % HoursPerDay) % 10),
          ":", "0", "0", ":", "0", "0">>)

\* self.scheduler.get_job(job_id): the job, or None
get_job(job_id) ==
    IF job_id \in jobs
    THEN [id |-> job_id, name |-> JobName(job_id), next_run_time |-> IntV(next_run_time[job_id])]
    ELSE NoneV

\* a get_next_run_time that has no answer for a job it does not find
get_next_run_time_null(job_id) ==
    LET job == get_job(job_id)
    IN  IF job # NoneV THEN Return(strftime(job.next_run_time.n)) ELSE Return(NoneV)

\* get_next_run_time(job_id); None.strftime raises AttributeError
get_next_run_time(job_id) ==
    LET job == get_job(job_id)
    IN  IF job # NoneV
        THEN IF job.next_run_time = NoneV THEN Raise
             ELSE Return(strftime(job.next_run_time.n))
        ELSE Return(Word("Not scheduled"))

\* get_scheduler_status(): running, and id, name and next_run of every job
get_scheduler_status ==
    Return([running |-> running,
            jobs |-> { LET job == get_job(j)
                       IN  [id |-> job.id, name |-> job.name,
                            next_run |-> IF job.next_run_time # NoneV
                                         THEN strftime(job.next_run_time.n)
                                         ELSE Word("Not scheduled")] : j \in jobs }])

IdleReport == [call |-> "none", job_id |-> "", out |-> Return(NoneV)]

\* a caller asks for the next run time of a job id
GetNextRunTime(job_id) ==
    /\ report' = [call |-> "get_next_run_time", job_id |-> job_id,
                  out |-> get_next_run_time(job_id)]
    /\ UNCHANGED <<pureVars, dbVars, env_google, now, running, jobs, next_run_time,
                   instances, cycle, od>>

\* a caller asks for the scheduler status
GetSchedulerStatus ==
    /\ report' = [call |-> "get_scheduler_status", job_id |-> "",
                  out |-> get_scheduler_status]
    /\ UNCHANGED <<pureVars, dbVars, env_google, now, running, jobs, next_run_time,
                   instances, cycle, od>>

----------------------------------------------------------------------------
(* scheduler.DataUpdateScheduler: the bodies of update_data and            *)
(* full_refresh, run when their coroutine is awaited                       *)

\* kind: which coroutine was awaited; pc: where it is; idx: the business type the loop
\* is at; all_data: the accumulated batch.  History of the run: raised (a step raised),
\* escaped (the exception left the coroutine), called (the business types queried so
\* far), found (the business types a provider returned records for), saved (the
\* business types whose records this run persisted), before (the row ids in the table
\* when full_refresh was called), cleared (the clear took effect), saved_count (what
\* save_businesses returned), saves (the calls of save_businesses: the business types
\* queried before the call, and its batch).  The locals idx and all_data go when the
\* coroutine ends
IdleCycle ==
    [kind |-> "none", pc |-> "idle", idx |-> 0, all_data |-> <<>>,
     raised |-> FALSE, escaped |-> FALSE, called |-> <<>>, found |-> {},
     saved |-> {}, before |-> {}, cleared |-> FALSE, saved_count |-> Absent,
     saves |-> <<>>]

RowIds == {store[i]["id"].n : i \in 1..Len(store)}

\* a handler that logs and raises again
except_reraise_cycle(c) ==
    [c EXCEPT !.pc = "idle", !.idx = 0, !.all_data = <<>>, !.raised = TRUE,
              !.escaped = TRUE]

\* except Exception as e: logger.error(...)   -- the coroutine then returns
except_log(c) == [c EXCEPT !.pc = "idle", !.idx = 0, !.all_data = <<>>, !.raised = TRUE]

\* a caller awaits update_data()
AwaitUpdate ==
    /\ cycle.pc = "idle"
    /\ cycle' = [IdleCycle EXCEPT !.kind = "update", !.pc = "loop", !.idx = 1]
    /\ UNCHANGED <<pureVars, dbVars, env_google, apsVars, od>>

\* a caller awaits full_refresh()
AwaitRefresh ==
    /\ cycle.pc = "idle"
    /\ cycle' = [IdleCycle EXCEPT !.kind = "refresh", !.pc = "clear", !.before = RowIds]
    /\ UNCHANGED <<pureVars, dbVars, env_google, apsVars, od>>

\* self.db_manager.clear_database(), then `await self.update_data()`; looking up a
\* method the class does not define raises AttributeError
RefreshClear ==
    /\ cycle.pc = "clear"
    /\ IF "clear_database" \in DatabaseManagerMethods
       THEN /\ store' = <<>>
            /\ cycle' = [cycle EXCEPT !.cleared = TRUE, !.pc = "loop", !.idx = 1]
       ELSE /\ store' = store
            /\ cycle' = except_log(cycle)
    /\ UNCHANGED <<pureVars, next_id, env_google, apsVars, od>>

\* `for business_type in self.business_types`, from business type i on, the calls
\* coming to outs[i] = <<scrape_yelp's outcome, get_google_places_data's outcome>>:
\* the locals and the history when the loop ends or a call raises
RECURSIVE UpdateLoop(_, _, _)
UpdateLoop(i, outs, c) ==
    IF i > Len(business_types) THEN c
    ELSE LET business_type == business_types[i]
             called == [c EXCEPT !.idx = i, !.called = Append(@, i)]
             yelp_data == Collected(i, business_type, "Yelp", outs[i][1])
             google_data == IF env_google
                            THEN Collected(i, business_type, "Google", outs[i][2])
                            ELSE <<>>
             merged_data == merge_data_sources(yelp_data, google_data)
         IN  IF outs[i][1] = "raise" \/ (env_google /\ outs[i][2] = "raise")
             THEN [called EXCEPT !.raised = TRUE]
             ELSE UpdateLoop(i + 1, outs,
                             [called EXCEPT !.all_data = @ \o merged_data,
                                            !.found = IF merged_data # <<>>
                                                      THEN @ \cup {i} ELSE @])

\* saved_count = self.db_manager.save_businesses(all_data), then the log line
SaveCall(c) ==
    LET r == save_businesses(c.all_data)
        d == [c EXCEPT !.saves = Append(@, [called |-> c.called, batch |-> c.all_data])]
    IN  IF r.ok
        THEN [cycle |-> [d EXCEPT !.pc = "idle", !.idx = 0, !.all_data = <<>>,
                                  !.saved = c.found, !.saved_count = r.v.ret],
              store |-> r.v.store, next_id |-> r.v.next_id]
        ELSE [cycle |-> except_log(d), store |-> store, next_id |-> next_id]

\* an update_data that saves whatever the loop accumulated, without `if all_data`
update_data_unguarded(outs, c0) ==
    LET c == UpdateLoop(1, outs, c0)
    IN  IF c.raised
        THEN [cycle |-> except_log(c), store |-> store, next_id |-> next_id]
        ELSE SaveCall(c)

\* the body of update_data: the loop, then `if all_data:` the save, else the
\* warning, all of it inside one try
update_data(outs, c0) ==
    LET c == UpdateLoop(1, outs, c0)
    IN  IF c.raised
        THEN [cycle |-> except_log(c), store |-> store, next_id |-> next_id]
        ELSE IF c.all_data # <<>>
        THEN SaveCall(c)
        ELSE [cycle |-> [c EXCEPT !.pc = "idle", !.idx = 0],
              store |-> store, next_id |-> next_id]

\* the awaited update_data() runs, the collector calls coming to outs
UpdateData ==
    /\ cycle.pc = "loop"
    /\ Fresh(store) < MaxStore
    /\ \E outs \in [1..Len(business_types) ->
                      Outcomes \X (IF env_google THEN Outcomes ELSE {"empty"})] :
        LET r == update_data(outs, cycle)
        IN  /\ cycle' = r.cycle
            /\ store' = r.store
            /\ next_id' = r.next_id
    /\ UNCHANGED <<pureVars, env_google, apsVars, od>>

----------------------------------------------------------------------------
(* app.py: the "Collect Data" button                                       *)

\* pc, idx: the position in `for idx, category in enumerate(search_categories, 1)`;
\* n: how many search categories were entered; msg: what the page shows
IdleOd == [pc |-> "idle", idx |-> 0, n |-> 0, api_type |-> "here", msg |-> ""]

\* the button is pressed with the form filled as `form` says
ODClick ==
    /\ od.pc = "idle"
    /\ \/ \E form \in {"no_category", "no_location", "no_key"} :
            od' = [IdleOd EXCEPT !.msg = form]
       \/ \E api_type \in {"here", "yelp"}, n \in 1..Len(business_types) :
            od' = [IdleOd EXCEPT !.pc = "loop", !.idx = 1, !.n = n,
                                 !.api_type = api_type]
    /\ UNCHANGED <<pureVars, dbVars, env_google, apsVars, cycle>>

\* for idx, category in enumerate(search_categories, 1):
\*     raw_data = collect_business_data(api_type, category, location)
\*     if raw_data: all_results.extend(raw_data)
RECURSIVE CollectLoop(_, _, _, _)
CollectLoop(idx, n, api_type, responses) ==
    IF idx > n THEN <<>>
    ELSE LET raw == collect_business_data(api_type, idx, business_types[idx],
                                          responses[idx], TRUE)
         IN  (IF raw # <<>> THEN raw ELSE <<>>)
             \o CollectLoop(idx + 1, n, api_type, responses)

\* the rest of the handler: the loop over the categories, then clean, process and
\* save, or one of the messages
ODCollect ==
    /\ od.pc = "loop"
    /\ Fresh(store) < MaxStore
    /\ \E responses \in [1..od.n -> Responses] :
        LET all_results == CollectLoop(1, od.n, od.api_type, responses)
            cleaned == clean_data(all_results)
            processed_data == process_data(cleaned.v)
            records == WithCategories(processed_data, business_types[1])
            r == save_businesses(records)
        IN  IF all_results # <<>>
            THEN IF ~cleaned.ok \/ processed_data = <<>> \/ ~r.ok
                 THEN /\ UNCHANGED dbVars
                      /\ od' = [IdleOd EXCEPT !.msg = "error"]
                 ELSE /\ store' = r.v.store
                      /\ next_id' = r.v.next_id
                      /\ od' = [IdleOd EXCEPT !.msg = "success"]
            ELSE /\ UNCHANGED dbVars
                 /\ od' = [IdleOd EXCEPT !.msg = "none_found"]
    /\ UNCHANGED <<pureVars, env_google, apsVars, cycle>>

----------------------------------------------------------------------------
(* Inputs of the pure-function harnesses                                   *)

AddrChars == {"s", "t", "e", "S", "T", "E", "#", "1"}
AddrStrings == UNION {[1..n -> AddrChars] : n \in 0..MaxAddrLen}

NumChars == {"4", ".", "-", "x"}
NumStrings == UNION {[1..n -> NumChars] : n \in 0..MaxStrLen}

NumValues ==
    {Absent, NoneV, IntV(-1), IntV(0), IntV(10), FloatV(45, 1), FloatV(-5, 1),
     Str(<<"4", ".", "5">>), Str(<<"1", "0">>), Str(<<"-", "1">>)}
    \cup {Str(x) : x \in NumStrings}

AddrValues == {Absent, NoneV, IntV(5), Str(<<"s", "t", "e">>), Str(<<"1", " ", "O", "a", "k">>)}

\* a raw dict with the keys that are not Absent
MkRaw(name, a, r, c) ==
    LET keys == {"Business Name"}
                \cup (IF a = Absent THEN {} ELSE {"Address"})
                \cup (IF r = Absent THEN {} ELSE {"Rating"})
                \cup (IF c = Absent THEN {} ELSE {"Review Count"})
    IN  [k \in keys |->
            CASE k = "Business Name" -> name
              [] k = "Address" -> a
              [] k = "Rating" -> r
              [] k = "Review Count" -> c]

\* the kinds of record mixed in the longer batches
BatchKinds ==
    { <<Str(<<"s", "t", "e">>), FloatV(45, 1), IntV(10)>>,
      <<Absent, Str(<<"4", ".", "5">>), Str(<<"1", "0">>)>>,
      <<Str(<<"1", " ", "O", "a", "k">>), Absent, Absent>>,
      <<Str(<<"1", " ", "O", "a", "k">>), Str(<<"x">>), IntV(0)>>,
      <<Str(<<"1", " ", "O", "a", "k">>), IntV(4), Str(<<"4", ".", "5">>)>>,
      <<NoneV, IntV(4), IntV(1)>>,
      <<NoneV, NoneV, NoneV>> }

\* position i of a batch: a dict named after its position, or (last kind) not a dict
RawAt(i, kind) ==
    IF kind = <<NoneV, NoneV, NoneV>> THEN NoneV
    ELSE MkRaw(Word(ToString(i)), kind[1], kind[2], kind[3])

CleanInputs ==
    { <<MkRaw(Word("1"), a, r, c)>> : a \in AddrValues, r \in NumValues, c \in NumValues }
    \cup UNION { { [i \in 1..n |-> RawAt(i, ks[i])] : ks \in [1..n -> BatchKinds] }
                 : n \in 0..MaxBatch }

\* the records handed to merge_data_sources: three spellings of two businesses
\* ("a" at "1 Oak" and "A " at "1  oak" are one business, "b" another), with a
\* rating that is zero, 3.0 or 4.0 and a phone that is empty or not
MergeNames == {<<"a">>, <<"A", " ">>, <<"b">>}

MergeRecord(name, rating, phone) ==
    [k \in {"Business Name", "Address", "Rating", "Phone"} |->
        CASE k = "Business Name" -> Str(name)
          [] k = "Address" -> IF name = <<"A", " ">>
                              THEN Str(<<"1", " ", " ", "o", "a", "k">>)
                              ELSE Str(<<"1", " ", "O", "a", "k">>)
          [] k = "Rating" -> rating
          [] k = "Phone" -> phone]

\* the rating and the phone a source reports together
MergeReports ==
    { <<FloatV(4, 0), Str(<<>>)>>, <<FloatV(3, 0), Word("555")>>,
      <<IntV(0), Word("555")>>, <<IntV(0), Str(<<>>)>> }

MergeRecords ==
    { MergeRecord(name, rp[1], rp[2]) :
        name \in MergeNames, rp \in MergeReports }

MergeInputs == UNION {[1..n -> MergeRecords] : n \in 0..MaxMerge}

----------------------------------------------------------------------------
(* The harnesses: classify_address, clean_data and merge_data_sources      *)
(* applied to the inputs                                                   *)

ApsIdle ==
    /\ running = FALSE /\ jobs = {} /\ next_run_time = [j \in {} |-> 0]
    /\ instances = [j \in JobIds |-> 0]
    /\ report = IdleReport

SysIdle ==
    /\ store = <<>> /\ next_id = 1 /\ env_google = FALSE
    /\ ApsIdle /\ now = 0
    /\ cycle = IdleCycle /\ od = IdleOd

ClassifyIdle == address = <<>> /\ classification = <<>> /\ calls = 0
CleanIdle ==
    /\ raw_data = <<>> /\ cleaned_data = <<>> /\ recleaned = <<>>
    /\ cleanRaised = FALSE /\ cleanPc = "idle"

MergeIdle ==
    /\ primary_in = <<>> /\ secondary_in = <<>> /\ merged = <<>> /\ swapped = <<>>
    /\ mergePc = "idle"

ClientIdle == client = IdleClient

Classify ==
    /\ calls < MaxCalls
    /\ classification' = classify_address(address)
    /\ calls' = calls + 1
    /\ UNCHANGED <<address, cleanVars, mergeVars, client, sysVars>>

InitClassify ==
    /\ address \in AddrStrings /\ classification = <<>> /\ calls = 0
    /\ CleanIdle /\ MergeIdle /\ ClientIdle /\ SysIdle

SpecClassify == InitClassify /\ [][Classify]_vars

\* cleaned_data = clean_data(all_results)            (app.py:159)
Clean ==
    /\ cleanPc = "raw"
    /\ LET r == clean_data(raw_data)
       IN  /\ cleaned_data' = (IF r.ok THEN r.v ELSE <<>>)
           /\ cleanRaised' = ~r.ok
    /\ cleanPc' = "cleaned"
    /\ UNCHANGED <<raw_data, recleaned, classifyVars, mergeVars, client, sysVars>>

\* clean_data applied to its own output
Reclean ==
    /\ cleanPc = "cleaned" /\ ~cleanRaised
    /\ LET r == clean_data(cleaned_data)
       IN  /\ recleaned' = (IF r.ok THEN r.v ELSE <<>>)
           /\ cleanRaised' = ~r.ok
    /\ cleanPc' = "recleaned"
    /\ UNCHANGED <<raw_data, cleaned_data, classifyVars, mergeVars, client, sysVars>>

InitClean ==
    /\ raw_data \in CleanInputs /\ cleaned_data = <<>> /\ recleaned = <<>>
    /\ cleanRaised = FALSE /\ cleanPc = "raw"
    /\ ClassifyIdle /\ MergeIdle /\ ClientIdle /\ SysIdle

SpecClean == InitClean /\ [][Clean \/ Reclean]_vars

\* merged_data = merge_data_sources(yelp_data, google_data)   (scheduler.py:66)
Merge ==
    /\ mergePc = "in"
    /\ merged' = merge_data_sources(primary_in, secondary_in)
    /\ mergePc' = "merged"
    /\ UNCHANGED <<primary_in, secondary_in, swapped, classifyVars, cleanVars, client, sysVars>>

\* the same call with the two sources the other way round
MergeSwapped ==
    /\ mergePc = "merged"
    /\ swapped' = merge_data_sources(secondary_in, primary_in)
    /\ mergePc' = "swapped"
    /\ UNCHANGED <<primary_in, secondary_in, merged, classifyVars, cleanVars, client, sysVars>>

InitMerge ==
    /\ primary_in \in MergeInputs /\ secondary_in \in MergeInputs
    /\ merged = <<>> /\ swapped = <<>> /\ mergePc = "in"
    /\ ClassifyIdle /\ CleanIdle /\ ClientIdle /\ SysIdle

SpecMerge == InitMerge /\ [][Merge \/ MergeSwapped]_vars

InitClient ==
    /\ client \in {[IdleClient EXCEPT !.api_type = a, !.has_key = k, !.entry = e, !.i = i,
                                      !.radius_miles = r,
                                      !.radius_meters = radius_meters(r)] :
                     a \in ApiTypes, k \in BOOLEAN, e \in {"collect", "direct"},
                     i \in 1..Len(business_types), r \in Radii}
    /\ ClassifyIdle /\ CleanIdle /\ MergeIdle /\ SysIdle

NextClient ==
    \/ CollectCall
    \/ DirectCall
    \/ Construct
    \/ SearchCall
    \/ GeocodeReply
    \/ SearchReply

SpecClient == InitClient /\ [][NextClient]_vars

----------------------------------------------------------------------------
(* The system: the store, the scheduler, the cycles, the on-demand path    *)

Init ==
    /\ store = <<>> /\ next_id = 1
    /\ env_google \in BOOLEAN
    /\ ApsIdle /\ now = 0
    /\ cycle = IdleCycle /\ od = IdleOd
    /\ ClassifyIdle /\ CleanIdle /\ MergeIdle /\ ClientIdle

\* The job instances of the executor touch neither the table nor a cycle (they only
\* make coroutine objects), so the clock and the executor are explored on their own
\* in SpecJobs, and the table, the cycles and the on-demand path here.
Next ==
    \/ Start
    \/ Stop
    \/ AwaitUpdate
    \/ AwaitRefresh
    \/ RefreshClear
    \/ UpdateData
    \/ ODClick
    \/ ODCollect

Spec == Init /\ [][Next]_vars

\* the program started on the database file of an earlier run
InitAppend ==
    /\ store = ExistingRows /\ next_id = Len(ExistingRows) + 1
    /\ env_google \in BOOLEAN
    /\ ApsIdle /\ now = 0
    /\ cycle = IdleCycle /\ od = IdleOd
    /\ ClassifyIdle /\ CleanIdle /\ MergeIdle /\ ClientIdle

SpecAppend == InitAppend /\ [][Next]_vars

InitJobs ==
    /\ store = <<>> /\ next_id = 1 /\ env_google = FALSE
    /\ ApsIdle /\ now = 0
    /\ cycle = IdleCycle /\ od = IdleOd
    /\ ClassifyIdle /\ CleanIdle /\ MergeIdle /\ ClientIdle

NextJobs ==
    \/ Start
    \/ Stop
    \/ Tick
    \/ \E j \in JobIds : Fire(j)
    \/ \E j \in JobIds : JobReturn(j)
    \/ \E job_id \in JobIds \cup {"monthly_report"} : GetNextRunTime(job_id)
    \/ GetSchedulerStatus

SpecJobs == InitJobs /\ [][NextJobs]_vars

----------------------------------------------------------------------------
(* Claims about the cycles, the table and the scheduler                    *)

\* this step is one in which a step of the running cycle raises
CycleRaises == cycle.pc # "idle" /\ ~cycle.raised /\ cycle'.raised

NoRepeat(seq) == \A i, j \in 1..Len(seq) : seq[i] = seq[j] => i = j

\* C1: when a step of an update_data or full_refresh cycle raises, the exception is
\* caught inside the coroutine (it does not escape), the cycle is back to idle when
\* the step ends, the scheduler is as it was (still running, the same jobs
\* registered), and no business type was queried twice.
C1_FailedCycleContained ==
    [][CycleRaises =>
         /\ ~cycle'.escaped
         /\ cycle'.pc = "idle"
         /\ running' = running /\ jobs' = jobs
         /\ NoRepeat(cycle'.called)]_vars

\* an update_data cycle whose second business type raised, after the first one
\* returned records, has ended, with the scheduler running and both jobs registered
C1_Witness ==
    /\ cycle.kind = "update" /\ cycle.raised /\ cycle.pc = "idle"
    /\ cycle.called = <<1, 2>> /\ cycle.found = {1}
    /\ running /\ jobs = JobIds

\* C2: when an update_data cycle has ended, every business type was queried and the
\* records of every business type that returned some were in the batch that was
\* saved, whatever call raised.
C2_CategoryFailureIsolated ==
    (cycle.kind = "update" /\ cycle.pc = "idle") =>
        /\ cycle.called = [i \in 1..Len(business_types) |-> i]
        /\ cycle.found \subseteq cycle.saved

\* C3: when a full_refresh has ended, no row that was in the table when it was
\* called is still there.
C3_RefreshClearsStore ==
    (cycle.kind = "refresh" /\ cycle.pc = "idle") => cycle.before \cap RowIds = {}

\* C4: the step that ends a full_refresh leaves in the table only rows that this
\* step wrote: the clear emptied the table and nothing was appended between the
\* clear and the rewrite.
C4_RefreshIsCriticalSection ==
    [][(cycle.kind = "refresh" /\ cycle.pc # "idle" /\ cycle'.pc = "idle") =>
         \A i \in 1..Len(store') : \A k \in 1..Len(store) : store'[i] # store[k]]_vars

\* C17: a cycle of update_data that saved its batch reports as saved_count the
\* number of records the save persisted, which is the growth of the table.
C17_SavedCountIsGrowth ==
    [][(cycle.kind = "update" /\ cycle.pc = "loop" /\ cycle'.pc = "idle"
          /\ cycle'.saved # {}) =>
         cycle'.saved_count = IntV(Len(store') - Len(store))]_vars

\* the business types of the records of a batch
TypesIn(batch) == {batch[k]["Business Type"] : k \in 1..Len(batch)}

\* C19: a cycle of update_data calls save_businesses at most once, after every
\* configured business type has been queried, with a batch that is not empty and
\* holds the records of every business type that returned some; a cycle that
\* does not call it leaves the table as it was.
C19_OneSaveAfterAllCategories ==
    [][(cycle.pc = "loop" /\ cycle'.pc = "idle") =>
         LET saves == cycle'.saves
         IN  /\ Len(saves) <= 1
             /\ \A k \in 1..Len(saves) :
                  /\ saves[k].called = [i \in 1..Len(business_types) |-> i]
                  /\ saves[k].batch # <<>>
                  /\ TypesIn(saves[k].batch) = {business_types[i] : i \in cycle'.found}
             /\ saves = <<>> => store' = store]_vars

\* a finished cycle saved once, a batch gathered from two business types
C19_Witness ==
    /\ cycle.kind = "update" /\ cycle.pc = "idle" /\ ~cycle.raised
    /\ Len(cycle.saves) = 1
    /\ Cardinality(TypesIn(cycle.saves[1].batch)) >= 2
    /\ Len(store) = Len(cycle.saves[1].batch)

\* every row of the table is still there, where it was and as it was
AllKept == \A k \in 1..Len(store) : k <= Len(store') /\ store'[k] = store[k]

\* C20: a step of the program keeps every row already in the table, unchanged:
\* the cycles of update_data and the on-demand save only add rows, and rows go
\* only in the clear of a full refresh, all at once.
C20_StoreOnlyGrows ==
    [][AllKept \/ (cycle.kind = "refresh" /\ cycle.pc = "clear" /\ store' = <<>>)]_vars

\* a cycle of update_data has added its batch behind the row of the earlier run
C20_Witness ==
    /\ cycle.kind = "update" /\ cycle.pc = "idle" /\ Len(cycle.saves) = 1
    /\ Len(store) = Len(ExistingRows) + Len(cycle.saves[1].batch)
    /\ SubSeq(store, 1, Len(ExistingRows)) = ExistingRows

\* C23: when the instance of a fired job ends, the body of its function has
\* run: for daily_update every configured business type was queried and a batch
\* was saved, for weekly_refresh the body of full_refresh was executed.
C23_FiredJobRunsBody ==
    [][\A j \in JobIds :
         instances'[j] < instances[j] =>
            IF j = "daily_update"
            THEN /\ cycle'.kind = "update"
                 /\ cycle'.called = [i \in 1..Len(business_types) |-> i]
                 /\ Len(cycle'.saves) = 1
            ELSE cycle'.kind = "refresh" /\ cycle'.pc = "idle"]_vars

\* C5: at most one scheduled job instance is in flight.
C5_NoTwoJobsInFlight == Cardinality(InFlight) <= 1

\* the string is the timestamp of hour t of the week, read digit by digit
IsTimeOf(v, t) ==
    /\ v.t = "str" /\ Len(v.s) = 10
    /\ v.s[1] \in DOMAIN DigitOf /\ v.s[3] \in DOMAIN DigitOf /\ v.s[4] \in DOMAIN DigitOf
    /\ DigitOf[v.s[1]] * 24 + DigitOf[v.s[3]] * 10 + DigitOf[v.s[4]] = t
    /\ v.s[2] = " " /\ SubSeq(v.s, 5, 10) = <<":", "0", "0", ":", "0", "0">>

\* the answer is what the scheduler state of the call calls for
RightAnswer(call, job_id, v) ==
    IF call = "get_next_run_time"
    THEN IF job_id \in jobs THEN IsTimeOf(v, next_run_time[job_id])
         ELSE v = Word("Not scheduled")
    ELSE /\ v.running = running
         /\ {e.id : e \in v.jobs} = jobs
         /\ \A e \in v.jobs : IsTimeOf(e.next_run, next_run_time[e.id])

----------------------------------------------------------------------------
(* Claims about classify_address                                           *)

\* the two characters are equal up to the case of an ASCII letter
CaseEq(c, d) ==
    \/ c = d
    \/ c \in DOMAIN LowerOf /\ LowerOf[c] = d
    \/ d \in DOMAIN LowerOf /\ LowerOf[d] = c

TokenSet == {commercial_indicators[i] : i \in 1..Len(commercial_indicators)}

\* some indicator token occurs in a, case-insensitively, as a substring
ContainsToken(a) ==
    \E tok \in TokenSet : \E i \in 1..Len(a) :
        /\ i + Len(tok) - 1 <= Len(a)
        /\ \A k \in 1..Len(tok) : CaseEq(a[i + k - 1], tok[k])

\* C6: whenever classify_address has been called on an address, in whatever state and
\* however often, its result is ('Commercial', '#FFD700') if the address contains one
\* of the indicator tokens case-insensitively and ('Residential', '#90EE90') if it
\* contains none, so the result is a function of the address alone.
C6_ClassifyByToken ==
    calls > 0 =>
        classification = IF ContainsToken(address)
                         THEN <<"Commercial", "#FFD700">>
                         ELSE <<"Residential", "#90EE90">>

\* an address whose only token is in mixed case has been classified Commercial
C6_Witness ==
    /\ calls = MaxCalls
    /\ address = <<"1", "S", "t", "E">>
    /\ classification = <<"Commercial", "#FFD700">>

----------------------------------------------------------------------------
(* Claims about merge_data_sources                                         *)

\* the words of a text: its maximal runs of non-blank characters
RECURSIVE WordsOf(_, _)
WordsOf(x, word) ==
    IF x = <<>> THEN (IF word = <<>> THEN <<>> ELSE <<word>>)
    ELSE IF Head(x) = " "
         THEN (IF word = <<>> THEN <<>> ELSE <<word>>) \o WordsOf(Tail(x), <<>>)
         ELSE WordsOf(Tail(x), Append(word, Head(x)))

\* the two texts have the same words, up to the case of the letters
SameText(x, y) ==
    LET wx == WordsOf(x, <<>>)
        wy == WordsOf(y, <<>>)
    IN  /\ Len(wx) = Len(wy)
        /\ \A i \in 1..Len(wx) :
            /\ Len(wx[i]) = Len(wy[i])
            /\ \A k \in 1..Len(wx[i]) : CaseEq(wx[i][k], wy[i][k])

\* the two records are the same business: same name and same address
SameBusiness(r, q) ==
    /\ SameText(r["Business Name"].s, q["Business Name"].s)
    /\ SameText(r["Address"].s, q["Address"].s)

\* the value is neither empty nor zero
Populated(v) == (v.t = "str" /\ Len(v.s) > 0) \/ (v.t \in {"int", "float"} /\ v.n # 0)

\* the records of the list that are the business of r
Of(list, r) == {i \in 1..Len(list) : SameBusiness(list[i], r)}

\* C11: when the primary list and the secondary list each hold one record of a
\* business, the merged record of that business has, in every field, the primary's
\* value if that value is non-empty and non-zero, and the secondary's otherwise (so
\* a primary rating 4.0 wins over a secondary rating 3.0).
C11_PrimaryPreferred ==
    mergePc # "in" =>
        \A i \in 1..Len(primary_in) : \A j \in 1..Len(secondary_in) :
            LET p == primary_in[i]
                q == secondary_in[j]
            IN  (/\ SameBusiness(p, q)
                 /\ Of(primary_in, p) = {i}
                 /\ Of(secondary_in, q) = {j}) =>
                    \E o \in Of(merged, p) :
                        \A f \in DOMAIN p :
                            merged[o][f] = IF Populated(p[f]) THEN p[f] ELSE q[f]

\* the primary says 4.0 and no phone, the secondary 3.0 and a phone, of one business
\* spelled two ways: the merged record has the rating 4.0 and the secondary's phone
C11_Witness ==
    /\ mergePc = "merged"
    /\ primary_in = <<MergeRecord(<<"a">>, FloatV(4, 0), Str(<<>>))>>
    /\ secondary_in = <<MergeRecord(<<"A", " ">>, FloatV(3, 0), Word("555"))>>
    /\ Len(merged) = 1
    /\ merged[1]["Rating"] = FloatV(4, 0)
    /\ merged[1]["Phone"] = Word("555")

\* some record of the list that is the business of r has the field populated
SidePopulates(list, r, f) == \E i \in Of(list, r) : Populated(list[i][f])

\* C12: merging the two lists in either order gives the same businesses, and for
\* every field that the records of only one of the two lists populate, the merged
\* record of the business has the same value in both orders.
C12_CommutesOnOneSidedFields ==
    mergePc = "swapped" =>
        /\ Len(merged) = Len(swapped)
        /\ \A i \in 1..Len(merged) : Of(swapped, merged[i]) # {}
        /\ \A i \in 1..Len(merged) : \A j \in Of(swapped, merged[i]) :
            \A f \in DOMAIN merged[i] :
                (SidePopulates(primary_in, merged[i], f)
                    # SidePopulates(secondary_in, merged[i], f))
                => merged[i][f] = swapped[j][f]

\* one list has the rating and the other the phone, and the two spell the name
\* differently: both orders give the rating and the phone, under different names
C12_Witness ==
    /\ mergePc = "swapped"
    /\ primary_in = <<MergeRecord(<<"a">>, FloatV(4, 0), Str(<<>>))>>
    /\ secondary_in = <<MergeRecord(<<"A", " ">>, IntV(0), Word("555"))>>
    /\ Len(merged) = 1 /\ Len(swapped) = 1
    /\ merged[1]["Rating"] = FloatV(4, 0) /\ swapped[1]["Rating"] = FloatV(4, 0)
    /\ merged[1]["Phone"] = Word("555") /\ swapped[1]["Phone"] = Word("555")
    /\ merged # swapped

\* C13: the merged list has no two records of the same business (same name and
\* address, case and blanks aside), and every record handed in has exactly one
\* merged record of its business.
C13_OneRecordPerKey ==
    mergePc # "in" =>
        /\ \A i \in 1..Len(merged) : Of(merged, merged[i]) = {i}
        /\ \A i \in 1..Len(primary_in) : Cardinality(Of(merged, primary_in[i])) = 1
        /\ \A j \in 1..Len(secondary_in) : Cardinality(Of(merged, secondary_in[j])) = 1

\* two spellings of one business went in, one record came out
C13_Witness ==
    /\ mergePc = "merged"
    /\ Len(primary_in) = 1 /\ Len(secondary_in) = 1
    /\ primary_in[1]["Business Name"] # secondary_in[1]["Business Name"]
    /\ SameBusiness(primary_in[1], secondary_in[1])
    /\ Len(merged) = 1

----------------------------------------------------------------------------
(* Claims about the provider clients                                       *)

\* the replies that are a network, HTTP-status or response-parsing failure
FailureReplies == {"exception", "not_json", "error_body", "http_error", "malformed"}

Replied(c, kinds) == \E k \in 1..Len(c.replies) : c.replies[k] \in kinds

\* C14: no exception leaves search_businesses (once a request was issued, the call
\* has raised nothing); after a reply that is a network, HTTP-status or parsing
\* failure the call has returned the empty list; and after a geocoding reply without
\* results it has returned the empty list with the geocoding request as its only one.
C14_RecoverableFailureGivesEmpty ==
    /\ client.requests # <<>> => client.raised = "none" /\ client.pc # "raised"
    /\ Replied(client, FailureReplies) =>
            client.pc = "returned" /\ client.result = <<>>
    /\ Replied(client, {"no_results"}) =>
            client.pc = "returned" /\ client.result = <<>>
            /\ client.requests = <<"geocode">>

\* HERE geocoded the location, then the search request failed in the network: the
\* call returned the empty list
C14_Witness ==
    /\ client.api_type = "here" /\ client.replies = <<"ok", "exception">>
    /\ client.requests = <<"geocode", "search">>
    /\ client.pc = "returned" /\ client.result = <<>> /\ client.raised = "none"

\* C15: when collect_business_data was called for a provider whose key is not set,
\* the call has ended with the configuration error of the constructor (ValueError),
\* and without any request.
C15_MissingCredentialRaises ==
    (/\ client.entry = "collect" /\ client.api_type \in {"here", "yelp"}
     /\ ~client.has_key /\ client.pc # "idle") =>
        /\ client.pc = "raised" /\ client.raised = "ValueError"
        /\ client.requests = <<>>

\* C18: the request a provider call is waiting on carries a timeout.
C18_EveryRequestHasTimeout ==
    client.pending.kind # "none" => client.pending.timeout # NoneV

\* C21: the business search of an on-demand collection carries the radius the
\* operator selected, in meters.
C21_SearchUsesSelectedRadius ==
    (client.entry = "collect" /\ client.pending.kind = "search") =>
        client.pending.radius = IntV(client.radius_miles * 1609)

----------------------------------------------------------------------------
(* Claims about the address type of the persisted records                  *)

\* C7: every row of the table has an address_type that is 'Residential' or
\* 'Commercial' and is the one classify_address derives from the row's address.
C7_AddressTypeDerived ==
    \A i \in 1..Len(store) :
        /\ store[i]["address_type"] \in {Word(Residential[1]), Word(Commercial[1])}
        /\ store[i]["address"].t = "str"
        /\ store[i]["address_type"] = Word(classify_address(store[i]["address"].s)[1])

----------------------------------------------------------------------------
(* Claims about clean_data                                                 *)

Digits == DOMAIN DigitOf
Body(x) == IF x # <<>> /\ x[1] \in {"+", "-"} THEN SubSeq(x, 2, Len(x)) ELSE x

\* x is a decimal literal float() accepts
IsFloatLiteral(x) ==
    /\ \A i \in 1..Len(Body(x)) : Body(x)[i] \in Digits \cup {"."}
    /\ Cardinality({i \in 1..Len(Body(x)) : Body(x)[i] = "."}) <= 1
    /\ Cardinality({i \in 1..Len(Body(x)) : Body(x)[i] \in Digits}) >= 1

\* x is an integer literal int() accepts
IsIntLiteral(x) ==
    /\ Body(x) # <<>>
    /\ \A i \in 1..Len(Body(x)) : Body(x)[i] \in Digits

Lacks(r, key) == key \notin DOMAIN r

\* every field of the raw record r can be coerced: r is a dict, its address (if any) is
\* a string, its rating (if any) converts to float, its review count (if any) to int
Coercible(r) ==
    /\ IsDict(r)
    /\ Lacks(r, "Address") \/ r["Address"].t = "str"
    /\ \/ Lacks(r, "Rating")
       \/ r["Rating"].t \in {"int", "float"}
       \/ r["Rating"].t = "str" /\ IsFloatLiteral(r["Rating"].s)
    /\ \/ Lacks(r, "Review Count")
       \/ r["Review Count"].t \in {"int", "float"}
       \/ r["Review Count"].t = "str" /\ IsIntLiteral(r["Review Count"].s)

\* the output record emitted for the raw record at position i, if any
EmittedFor(i) ==
    {j \in 1..Len(cleaned_data) :
        cleaned_data[j]["Business Name"] = raw_data[i]["Business Name"]}

\* the defaults are there in the output records emitted for raw record i
DefaultsFilled(i) ==
    /\ EmittedFor(i) # {}
    /\ \A j \in EmittedFor(i) :
        /\ Lacks(raw_data[i], "Rating") => cleaned_data[j]["Rating"] = FloatV(0, 0)
        /\ Lacks(raw_data[i], "Review Count") => cleaned_data[j]["Reviews"] = IntV(0)
        /\ cleaned_data[j]["Rating"].t = "float"
        /\ cleaned_data[j]["Reviews"].t = "int"

LacksRatingOrReviews(r) == IsDict(r) /\ (Lacks(r, "Rating") \/ Lacks(r, "Review Count"))

\* C8 as claimed: after clean_data, every raw record that lacks the rating and/or the
\* review-count key has an output record, with Rating 0.0 / Reviews 0 for the missing
\* key and no null.
C8_EveryLackingRecordEmitted ==
    cleanPc # "raw" =>
        \A i \in 1..Len(raw_data) : LacksRatingOrReviews(raw_data[i]) => DefaultsFilled(i)

\* C8 as amended: after clean_data, every raw record that lacks the rating and/or the
\* review-count key, and whose address and remaining fields can be coerced, has an
\* output record with Rating 0.0 for a missing rating key and Reviews 0 for a missing
\* review-count key, both of them numbers and never null.
C8_CoercibleLackingRecordEmitted ==
    cleanPc # "raw" =>
        \A i \in 1..Len(raw_data) :
            LacksRatingOrReviews(raw_data[i]) /\ Coercible(raw_data[i]) => DefaultsFilled(i)

\* a batch whose second record has neither key went through clean_data and came out
\* with the defaults
C8_Witness ==
    /\ cleanPc = "cleaned"
    /\ Len(raw_data) = 2 /\ Len(cleaned_data) = 2
    /\ IsDict(raw_data[2])
    /\ Lacks(raw_data[2], "Rating") /\ Lacks(raw_data[2], "Review Count")
    /\ cleaned_data[2]["Rating"] = FloatV(0, 0)
    /\ cleaned_data[2]["Reviews"] = IntV(0)

\* C9: clean_data applied to its own output returns that output unchanged, field for
\* field.
C9_Idempotent == cleanPc = "recleaned" => recleaned = cleaned_data

\* the positions of the raw records that can be coerced, in input order
RECURSIVE KeptFrom(_)
KeptFrom(i) ==
    IF i > Len(raw_data) THEN <<>>
    ELSE (IF Coercible(raw_data[i]) THEN <<i>> ELSE <<>>) \o KeptFrom(i + 1)

\* C10: clean_data never raises, and its output holds exactly the raw records whose
\* fields can all be coerced, one output record each, in input order: a record that
\* cannot be coerced is the only one dropped.
C10_OnlyBadRecordsDropped ==
    cleanPc # "raw" =>
        /\ ~cleanRaised
        /\ Len(cleaned_data) = Len(KeptFrom(1))
        /\ \A j \in 1..Len(cleaned_data) :
            /\ cleaned_data[j]["Business Name"] = raw_data[KeptFrom(1)[j]]["Business Name"]
            /\ cleaned_data[j]["Address"] = Get(raw_data[KeptFrom(1)[j]], "Address", Str(<<>>))

\* a batch whose first record cannot be coerced was cleaned: the second one survives
C10_Witness ==
    /\ cleanPc = "cleaned"
    /\ Len(raw_data) = 2 /\ Len(cleaned_data) = 1
    /\ ~Coercible(raw_data[1])
    /\ cleaned_data[1]["Business Name"] = Word("2")

\* C22: every record clean_data emitted has a rating and a review count that
\* are not negative.
C22_RatingAndReviewsNonNegative ==
    cleanPc # "raw" =>
        \A j \in 1..Len(cleaned_data) :
            /\ cleaned_data[j]["Rating"].n >= 0
            /\ cleaned_data[j]["Reviews"].n >= 0

====
